---- MODULE Spec2Model ----
(***************************************************************************)
(* Model of the webhook proxy: IntegrationManager (configuration loading   *)
(* and get_integration), IntegrationService (generate_message,             *)
(* send_to_destination, process_event) and the Flask handler               *)
(* handle_webhook.                                                         *)
(*                                                                         *)
(* JSON / YAML values are tagged records:                                  *)
(*   [t |-> "null"], [t |-> "str", s |-> ..], [t |-> "num", n |-> ..],     *)
(*   [t |-> "list", l |-> <<..>>], [t |-> "obj", o |-> [key |-> value]].   *)
(* A Python exception travelling through an expression is the pseudo value *)
(*   [t |-> "raise", exc |-> <exception class>].                           *)
(* An integration record (one entry of the "integrations" list) is a       *)
(* function from the field names it has to their values; message_format is *)
(* a sequence of segments, [lit |-> text], [name |-> placeholder] or       *)
(* [index |-> n] (a positional placeholder, "{}" or "{0}").                *)
(***************************************************************************)
EXTENDS Integers, Sequences, FiniteSets, TLC

VARIABLES file, config, pc, secret, payload, integration, message, posts,
          response, result

vars == <<file, config, pc, secret, payload, integration, message, posts,
          response, result>>

(***************************************************************************)
(* Bounds of the model.                                                    *)
(***************************************************************************)
MaxRecords == 2

MaxKeys == 3

MaxCommits == 3

(***************************************************************************)
(* Values.                                                                 *)
(***************************************************************************)
Null == [t |-> "null"]

Str(s) == [t |-> "str", s |-> s]

Num(n) == [t |-> "num", n |-> n]

List(l) == [t |-> "list", l |-> l]

Obj(f) == [t |-> "obj", o |-> f]

EmptyDict == [k \in {} |-> Null]

Raise(exc) == [t |-> "raise", exc |-> exc]

\* Sequences of length at most n over S.
SeqsUpTo(S, n) == UNION {[1..k -> S] : k \in 0..n}

\* The order in which the keys of a mapping are listed (Python dictionaries
\* keep the order of the request's JSON text; requests are drawn with their
\* keys in this order).
KeyOrder ==
  <<"action", "pull_request", "repository", "pusher", "commits", "deploy", "",
    "user", "login", "title", "name", "a">>

KeysOf(f) == SelectSeq(KeyOrder, LAMBDA k : k \in DOMAIN f)

\* dict.get(key, default) applied to the value v: v may be anything the
\* preceding .get returned, and only a mapping has a .get attribute.
DictGet(v, key, default) ==
  IF v.t = "raise" THEN v
  ELSE IF v.t = "obj"
       THEN (IF key \in DOMAIN v.o THEN v.o[key] ELSE default)
       ELSE Raise("AttributeError")

\* len(v)
PyLen(v) ==
  IF v.t = "raise" THEN v
  ELSE IF v.t = "list" THEN Num(Len(v.l))
  ELSE IF v.t = "obj" THEN Num(Cardinality(DOMAIN v.o))
  ELSE IF v.t = "str" THEN Num(Len(v.s))
  ELSE Raise("TypeError")

(***************************************************************************)
(* IntegrationManager                                                      *)
(***************************************************************************)

\* __init__: open() raises for a missing file and yaml.safe_load raises for
\* invalid YAML; both end in the except branch.  Any other file is whatever
\* safe_load returns for it (None for an empty file).
LoadConfig(f) ==
  IF f.kind \in {"missing", "invalid"}
  THEN Obj([integrations |-> List(<<>>)])
  ELSE f.value

\* integ.get("secret") != secret
SecretDiffers(integ, sec) ==
  ~("secret" \in DOMAIN integ /\ integ["secret"] = sec)

\* integ.get("event_name", "")
EventNameOf(integ) ==
  IF "event_name" \in DOMAIN integ THEN integ["event_name"] ELSE ""

\* EventAccepts with one test for both known events.
EventAcceptsEitherKey(event_name, pl) ==
  IF event_name \in {"pull_request", "push"}
  THEN "pull_request" \in DOMAIN pl.o \/ "commits" \in DOMAIN pl.o
  ELSE event_name \in DOMAIN pl.o

\* EventAccepts with an empty event name accepted by whatever the payload is.
EventAcceptsEmptyName(event_name, pl) ==
  IF event_name = "pull_request" THEN "pull_request" \in DOMAIN pl.o
  ELSE IF event_name = "push" THEN "commits" \in DOMAIN pl.o
  ELSE event_name = "" \/ event_name \in DOMAIN pl.o

\* The if / elif / else over event_name of the loop body.
EventAccepts(event_name, pl) ==
  IF event_name = "pull_request" THEN "pull_request" \in DOMAIN pl.o
  ELSE IF event_name = "push" THEN "commits" \in DOMAIN pl.o
  ELSE event_name \in DOMAIN pl.o

\* The for loop: candidatos after the entries i..Len(integrations).
RECURSIVE CandidatosFrom(_, _, _, _)
CandidatosFrom(integrations, i, sec, pl) ==
  IF i > Len(integrations) THEN <<>>
  ELSE LET integ == integrations[i]
           rest == CandidatosFrom(integrations, i + 1, sec, pl)
       IN IF SecretDiffers(integ, sec) THEN rest
          ELSE IF EventAccepts(EventNameOf(integ), pl) THEN <<integ>> \o rest
          ELSE rest

\* Decide with the first candidate winning.
DecideFirstWins(candidatos) ==
  IF Len(candidatos) = 0 THEN [kind |-> "none"]
  ELSE [kind |-> "found", rec |-> candidatos[1]]

\* What get_integration does once candidatos is built.
Decide(candidatos) ==
  IF Len(candidatos) = 0 THEN [kind |-> "none"]
  ELSE IF Len(candidatos) > 1 THEN [kind |-> "raise", exc |-> "ValueError"]
  ELSE [kind |-> "found", rec |-> candidatos[1]]

\* get_integration: [kind |-> "found", rec |-> r], [kind |-> "none"] (the
\* method returns None) or [kind |-> "raise", exc |-> e].
get_integration(cfg, sec, pl) ==
  LET integrations == DictGet(cfg, "integrations", List(<<>>))
  IN IF integrations.t = "raise"
     THEN [kind |-> "raise", exc |-> integrations.exc]
     ELSE IF integrations.t = "list"
          THEN Decide(CandidatosFrom(integrations.l, 1, sec, pl))
          ELSE IF integrations.t \in {"str", "obj"}
               \* iterating a string or a mapping yields strings, and a
               \* string has no .get
               THEN (IF PyLen(integrations).n = 0 THEN [kind |-> "none"]
                     ELSE [kind |-> "raise", exc |-> "AttributeError"])
               ELSE [kind |-> "raise", exc |-> "TypeError"]

(***************************************************************************)
(* IntegrationService                                                      *)
(***************************************************************************)

\* json.dumps(v): ", " between items, ": " after a key, keys in their order.
\* (The strings of the payloads drawn below are ASCII: no escapes.)
RECURSIVE JsonDumps(_), JsonItems(_, _), JsonMembers(_, _, _)
JsonDumps(v) ==
  IF v.t = "null" THEN "null"
  ELSE IF v.t = "str" THEN "\"" \o v.s \o "\""
  ELSE IF v.t = "num" THEN ToString(v.n)
  ELSE IF v.t = "list" THEN "[" \o JsonItems(v.l, 1) \o "]"
  ELSE "{" \o JsonMembers(v.o, KeysOf(v.o), 1) \o "}"

JsonItems(l, i) ==
  IF i > Len(l) THEN ""
  ELSE (IF i > 1 THEN ", " ELSE "") \o JsonDumps(l[i]) \o JsonItems(l, i + 1)

JsonMembers(f, keys, i) ==
  IF i > Len(keys) THEN ""
  ELSE (IF i > 1 THEN ", " ELSE "") \o "\"" \o keys[i] \o "\": "
       \o JsonDumps(f[keys[i]]) \o JsonMembers(f, keys, i + 1)

\* repr(v) and str(v), which str.format uses for a value without a format
\* specification.
RECURSIVE PyRepr(_), ReprItems(_, _), ReprMembers(_, _, _)
PyRepr(v) ==
  IF v.t = "null" THEN "None"
  ELSE IF v.t = "str" THEN "'" \o v.s \o "'"
  ELSE IF v.t = "num" THEN ToString(v.n)
  ELSE IF v.t = "list" THEN "[" \o ReprItems(v.l, 1) \o "]"
  ELSE "{" \o ReprMembers(v.o, KeysOf(v.o), 1) \o "}"

ReprItems(l, i) ==
  IF i > Len(l) THEN ""
  ELSE (IF i > 1 THEN ", " ELSE "") \o PyRepr(l[i]) \o ReprItems(l, i + 1)

ReprMembers(f, keys, i) ==
  IF i > Len(keys) THEN ""
  ELSE (IF i > 1 THEN ", " ELSE "") \o "'" \o keys[i] \o "': "
       \o PyRepr(f[keys[i]]) \o ReprMembers(f, keys, i + 1)

PyStr(v) == IF v.t = "str" THEN v.s ELSE PyRepr(v)

\* The first exception of a sequence of evaluated expressions, or Null.
RECURSIVE FirstRaise(_, _)
FirstRaise(vals, i) ==
  IF i > Len(vals) THEN Null
  ELSE IF vals[i].t = "raise" THEN vals[i]
  ELSE FirstRaise(vals, i + 1)

\* The if / elif / else of generate_message that builds format_vars:
\* [t |-> "vars", v |-> [name |-> value]], or the exception an extraction
\* raised.
format_vars(event_name, pl) ==
  IF event_name = "pull_request" THEN
    LET action == DictGet(pl, "action", Str("actualizó"))
        pr_user ==
          DictGet(DictGet(DictGet(pl, "pull_request", Obj(EmptyDict)),
                          "user", Obj(EmptyDict)),
                  "login", Str("usuario_desconocido"))
        repository ==
          DictGet(DictGet(pl, "repository", Obj(EmptyDict)),
                  "name", Str("repositorio_desconocido"))
        pr_title ==
          DictGet(DictGet(pl, "pull_request", Obj(EmptyDict)),
                  "title", Str("sin título"))
        failed == FirstRaise(<<action, pr_user, repository, pr_title>>, 1)
    IN IF failed.t = "raise" THEN failed
       ELSE [t |-> "vars",
             v |-> [action |-> action, pr_user |-> pr_user,
                    repository |-> repository, pr_title |-> pr_title]]
  ELSE IF event_name = "push" THEN
    LET pusher ==
          DictGet(DictGet(pl, "pusher", Obj(EmptyDict)),
                  "name", Str("usuario_desconocido"))
        repository ==
          DictGet(DictGet(pl, "repository", Obj(EmptyDict)),
                  "name", Str("repositorio_desconocido"))
        commit_count == PyLen(DictGet(pl, "commits", List(<<>>)))
        failed == FirstRaise(<<pusher, repository, commit_count>>, 1)
    IN IF failed.t = "raise" THEN failed
       ELSE [t |-> "vars",
             v |-> [pusher |-> pusher, repository |-> repository,
                    commit_count |-> commit_count]]
  ELSE [t |-> "vars", v |-> [payload |-> Str(JsonDumps(pl))]]

\* str.format(**kwargs) over the segments i..Len(template), appended to the
\* text built so far.  The fields are looked up left to right: a positional
\* field finds no positional argument (IndexError), a named field missing
\* from kwargs is a KeyError.
RECURSIVE FormatFrom(_, _, _, _)
FormatFrom(template, kwargs, i, acc) ==
  IF i > Len(template) THEN [kind |-> "ok", text |-> acc]
  ELSE LET seg == template[i]
       IN IF "lit" \in DOMAIN seg
          THEN FormatFrom(template, kwargs, i + 1, acc \o seg.lit)
          ELSE IF "index" \in DOMAIN seg
               THEN [kind |-> "raise", exc |-> "IndexError"]
               ELSE IF seg.name \in DOMAIN kwargs
                    THEN FormatFrom(template, kwargs, i + 1,
                                    acc \o PyStr(kwargs[seg.name]))
                    ELSE [kind |-> "raise", exc |-> "KeyError"]

\* "Evento recibido: " + json.dumps(payload)
Fallback(pl) == [kind |-> "ok", text |-> "Evento recibido: " \o JsonDumps(pl)]

\* The try / except KeyError around integration["message_format"].format.
TryFormat(integ, kwargs, pl) ==
  IF "message_format" \notin DOMAIN integ
  THEN Fallback(pl)
  ELSE LET r == FormatFrom(integ["message_format"], kwargs, 1, "")
       IN IF r.kind = "raise" /\ r.exc = "KeyError" THEN Fallback(pl) ELSE r

\* generate_message: [kind |-> "ok", text |-> message] or
\* [kind |-> "raise", exc |-> e].
generate_message(integ, pl) ==
  LET fv == format_vars(EventNameOf(integ), pl)
  IN IF fv.t = "raise"
     THEN [kind |-> "raise", exc |-> fv.exc]
     ELSE TryFormat(integ, fv.v, pl)

\* send_to_destination: the request handed to requests.post.
PostRequest(integ, msg) ==
  [url |-> integ["destination_url"], json |-> [text |-> msg]]

\* RelayStatus with the destination's status translated.
RelayStatusTranslated(resp) == IF resp.status_code < 400 THEN 200 ELSE 500

\* handle_webhook: the status code given for a response of the destination.
RelayStatus(resp) == resp.status_code

(***************************************************************************)
(* The inputs the model draws.                                             *)
(***************************************************************************)
PushTemplate ==
  <<[name |-> "pusher"], [lit |-> " pushed "], [name |-> "commit_count"],
    [lit |-> " commits to "], [name |-> "repository"]>>

PrTemplate ==
  <<[lit |-> "PR "], [name |-> "action"], [lit |-> " by "],
    [name |-> "pr_user"], [lit |-> " on "], [name |-> "repository"],
    [lit |-> ": "], [name |-> "pr_title"]>>

PayloadTemplate == <<[lit |-> "Event: "], [name |-> "payload"]>>

CommitCountTemplate == <<[name |-> "commit_count"]>>

MissingTemplate == <<[name |-> "nonexistent"]>>

PositionalTemplate == <<[index |-> 0], [lit |-> " "], [name |-> "nonexistent"]>>

EmptyTemplate == <<>>

Templates ==
  {PushTemplate, PrTemplate, PayloadTemplate, CommitCountTemplate,
   MissingTemplate, PositionalTemplate, EmptyTemplate}

Fields == {"secret", "event_name", "message_format", "destination_url"}

Restrict(f, D) == [k \in D |-> f[k]]

\* The records of the resolution runs: every secret and event name, with
\* and without the optional fields.
ResolveRecords ==
  {Restrict(r, D) :
     r \in [secret : {"s1", "s2"},
            event_name : {"pull_request", "push", "deploy", ""},
            message_format : {PayloadTemplate},
            destination_url : {"u1"}],
     D \in {Fields, Fields \ {"secret"}, Fields \ {"event_name"}}}

\* The records of the rendering runs: every event name with every template.
RenderRecords ==
  {Restrict(r, D) :
     r \in [secret : {"s1"},
            event_name : {"pull_request", "push", "deploy", ""},
            message_format : Templates,
            destination_url : {"u1"}],
     D \in {Fields, Fields \ {"event_name"}, Fields \ {"message_format"}}}

\* The records of the end-to-end runs.
PipeRecords ==
  {[secret |-> s, event_name |-> e, message_format |-> p[1],
    destination_url |-> p[2]] :
     s \in {"s1", "s2"}, e \in {"push", "deploy"},
     p \in {<<PushTemplate, "u1">>, <<MissingTemplate, "u2">>}}

Commits(n) == List([i \in 1..n |-> Obj(EmptyDict)])

\* The values a top-level key of a rendered payload takes.
RenderValues ==
  [k \in {"action", "pull_request", "repository", "pusher", "commits",
          "deploy", ""} |->
     IF k = "action" THEN {Str("opened")}
     ELSE IF k = "pull_request" THEN
       {Obj([user |-> Obj([login |-> Str("alice")]), title |-> Str("Fix bug")]),
        Obj(EmptyDict), Obj([user |-> Str("alice")]), Str("x")}
     ELSE IF k = "repository" THEN {Obj([name |-> Str("repo1")]), Str("repo1")}
     ELSE IF k = "pusher" THEN {Obj([name |-> Str("bob")]), Null}
     ELSE IF k = "commits" THEN
       {Commits(n) : n \in 0..MaxCommits}
         \cup {Num(5), Str("abc"), Obj([a |-> Num(1)]), Null}
     ELSE IF k = "deploy" THEN {Str("prod")}
     ELSE {Str("x")}]

\* Only the keys matter to resolution: one value for each.
ResolveValues ==
  [k \in {"action", "pull_request", "commits", "deploy", ""} |->
     IF k = "commits" THEN {Commits(1)}
     ELSE IF k = "pull_request" THEN {Obj(EmptyDict)}
     ELSE {Str("x")}]

PipeValues ==
  [k \in {"pusher", "commits", "deploy", ""} |->
     IF k = "commits" THEN {Commits(0), Commits(MaxCommits), Num(5)}
     ELSE IF k = "pusher" THEN {Obj([name |-> Str("bob")]), Str("bob")}
     ELSE {Str("x")}]

\* The mappings with at most n of the keys keys[i..], each key with one of
\* its values.
RECURSIVE DictsOver(_, _, _, _)
DictsOver(values, keys, i, n) ==
  IF i > Len(keys) \/ n = 0 THEN {EmptyDict}
  ELSE DictsOver(values, keys, i + 1, n)
         \cup {(keys[i] :> v) @@ f :
                 v \in values[keys[i]],
                 f \in DictsOver(values, keys, i + 1, n - 1)}

PayloadsOf(values) ==
  {Obj(f) : f \in DictsOver(values, KeysOf(values), 1, MaxKeys)}

RegistriesOf(records) ==
  {Obj([integrations |-> List(l)]) : l \in SeqsUpTo(records, MaxRecords)}

\* What integrations.yml may be: missing, not YAML, or YAML with some value.
Malformed ==
  {[kind |-> "missing"], [kind |-> "invalid"]}
    \cup {[kind |-> "yaml", value |-> v] :
            v \in {Null, List(<<>>), Str("integrations"), Obj(EmptyDict),
                   Obj([integrations |-> Null]),
                   Obj([integrations |-> Str("none")])}}

ConfigFiles ==
  Malformed
    \cup {[kind |-> "yaml", value |-> v] :
            v \in RegistriesOf(PipeRecords)}

\* The Authorization header: absent, or a value with or without the
\* "Bearer " prefix.
Headers ==
  {[present |-> FALSE]}
    \cup {[present |-> TRUE, bearer |-> b, token |-> tk] :
            b \in BOOLEAN, tk \in {"", "s1", "s2"}}

HeaderValue(h) == (IF h.bearer THEN "Bearer " ELSE "") \o h.token

\* request.get_json(): None, or the body's value.
Bodies == {Null} \cup PayloadsOf(PipeValues)

Statuses == {200, 204, 404, 503}

NotYet == [kind |-> "pending"]

NoResult == [status |-> 0, raised |-> "none"]

(***************************************************************************)
(* The service: start-up, then one request at a time through               *)
(* handle_webhook -> process_event -> get_integration -> generate_message  *)
(* -> send_to_destination.  pc is the position of the request in flight;   *)
(* at "done" handle_webhook has returned result.                           *)
(***************************************************************************)
Init ==
  /\ file = [kind |-> "missing"]
  /\ config = Null
  /\ pc = "start"
  /\ secret = ""
  /\ payload = Null
  /\ integration = NotYet
  /\ message = NotYet
  /\ posts = <<>>
  /\ response = NotYet
  /\ result = NoResult

\* Module start-up: integration_manager = IntegrationManager("integrations.yml")
Construct ==
  /\ pc = "start"
  /\ \E f \in ConfigFiles :
       /\ file' = f
       /\ config' = LoadConfig(f)
  /\ pc' = "idle"
  /\ UNCHANGED <<secret, payload, integration, message, posts, response, result>>

\* handle_webhook up to the call of process_event: the two early returns.
Receive ==
  /\ pc = "idle"
  /\ \E h \in Headers, body \in Bodies :
       IF ~h.present \/ HeaderValue(h) = ""
       THEN /\ result' = [status |-> 401, raised |-> "none"]
            /\ pc' = "done"
            /\ UNCHANGED <<secret, payload>>
       ELSE IF body = Null \/ body = Obj(EmptyDict)
            THEN /\ result' = [status |-> 400, raised |-> "none"]
                 /\ secret' = h.token
                 /\ payload' = body
                 /\ pc' = "done"
            ELSE /\ secret' = h.token
                 /\ payload' = body
                 /\ pc' = "resolve"
                 /\ UNCHANGED result
  /\ UNCHANGED <<file, config, integration, message, posts, response>>

\* process_event: get_integration and the None check; an exception ends in
\* the except branch of handle_webhook.
Resolve ==
  /\ pc = "resolve"
  /\ integration' = get_integration(config, secret, payload)
  /\ IF integration'.kind = "found"
     THEN pc' = "render" /\ UNCHANGED result
     ELSE /\ pc' = "done"
          /\ result' = [status |-> 500,
                        raised |-> IF integration'.kind = "none"
                                   THEN "ValueError" ELSE integration'.exc]
  /\ UNCHANGED <<file, config, secret, payload, message, posts, response>>

\* process_event: generate_message.
Render ==
  /\ pc = "render"
  /\ message' = generate_message(integration.rec, payload)
  /\ IF message'.kind = "ok"
     THEN pc' = "post" /\ UNCHANGED result
     ELSE pc' = "done" /\ result' = [status |-> 500, raised |-> message'.exc]
  /\ UNCHANGED <<file, config, secret, payload, integration, posts, response>>

\* send_to_destination: requests.post sends the request.
Post ==
  /\ pc = "post"
  /\ posts' = Append(posts, PostRequest(integration.rec, message.text))
  /\ pc' = "await"
  /\ UNCHANGED <<file, config, secret, payload, integration, message, response,
                 result>>

\* The destination answers: send_to_destination and process_event return the
\* response, handle_webhook returns its status code.
DestinationResponds ==
  /\ pc = "await"
  /\ \E st \in Statuses :
       /\ response' = [kind |-> "http", status_code |-> st]
       /\ result' = [status |-> RelayStatus(response'), raised |-> "none"]
  /\ pc' = "done"
  /\ UNCHANGED <<file, config, secret, payload, integration, message, posts>>

\* TransportFails with the request sent once more.
TransportFailsRetry ==
  /\ pc = "await"
  /\ posts' = Append(posts, posts[Len(posts)])
  /\ UNCHANGED <<file, config, pc, secret, payload, integration, message,
                 response, result>>

\* requests.post raises: send_to_destination logs and re-raises, and the
\* except branch of handle_webhook answers 500.
TransportFails ==
  /\ pc = "await"
  /\ response' = [kind |-> "raise", exc |-> "ConnectionError"]
  /\ result' = [status |-> 500, raised |-> "ConnectionError"]
  /\ pc' = "done"
  /\ UNCHANGED <<file, config, secret, payload, integration, message, posts>>

\* The answer is sent and the server waits for the next request; nothing
\* of the request is kept (the names above are locals of the handler).
NextRequest ==
  /\ pc = "done"
  /\ pc' = "idle"
  /\ secret' = ""
  /\ payload' = Null
  /\ integration' = NotYet
  /\ message' = NotYet
  /\ posts' = <<>>
  /\ response' = NotYet
  /\ result' = NoResult
  /\ UNCHANGED <<file, config>>

Next ==
  \/ Construct
  \/ Receive
  \/ Resolve
  \/ Render
  \/ Post
  \/ DestinationResponds
  \/ TransportFails
  \/ NextRequest

Spec == Init /\ [][Next]_vars

(***************************************************************************)
(* get_integration on its own: any registry, secret and payload.           *)
(***************************************************************************)
InitResolve ==
  /\ \E cfg \in RegistriesOf(ResolveRecords) :
       /\ file = [kind |-> "yaml", value |-> cfg]
       /\ config = cfg
  /\ pc = "resolve"
  /\ secret \in {"", "s1", "s2"}
  /\ payload \in PayloadsOf(ResolveValues)
  /\ integration = NotYet
  /\ message = NotYet
  /\ posts = <<>>
  /\ response = NotYet
  /\ result = NoResult

NextResolve == Resolve

SpecResolve == InitResolve /\ [][NextResolve]_vars

(***************************************************************************)
(* generate_message on its own: any record and payload.                    *)
(***************************************************************************)
InitRender ==
  /\ \E r \in RenderRecords :
       /\ file = [kind |-> "yaml", value |-> Obj([integrations |-> List(<<r>>)])]
       /\ config = Obj([integrations |-> List(<<r>>)])
       /\ integration = [kind |-> "found", rec |-> r]
  /\ pc = "render"
  /\ secret = "s1"
  /\ payload \in PayloadsOf(RenderValues)
  /\ message = NotYet
  /\ posts = <<>>
  /\ response = NotYet
  /\ result = NoResult

NextRender == Render

SpecRender == InitRender /\ [][NextRender]_vars

(***************************************************************************)
(* The claims.                                                             *)
(***************************************************************************)

\* The records of the loaded registry.
Records == config.o["integrations"].l

\* The top-level key a record's event name asks of the payload.
RequiredKey(rec) ==
  IF EventNameOf(rec) = "pull_request" THEN "pull_request"
  ELSE IF EventNameOf(rec) = "push" THEN "commits"
  ELSE EventNameOf(rec)

SecretMatches(rec) == "secret" \in DOMAIN rec /\ rec["secret"] = secret

\* The positions of the records that match the request on secret and event.
Matching ==
  {i \in 1..Len(Records) :
     SecretMatches(Records[i]) /\ RequiredKey(Records[i]) \in DOMAIN payload.o}

Resolved == integration # NotYet

\* C1: get_integration decides by the number of records matching on secret
\* and event acceptance: none gives the not-found outcome, exactly one
\* returns that record, two or more raise the ambiguity error.
C1_DecidesByMatchCount ==
  Resolved =>
    /\ Cardinality(Matching) = 0 => integration.kind = "none"
    /\ Cardinality(Matching) = 1 =>
         /\ integration.kind = "found"
         /\ \A i \in Matching : integration.rec = Records[i]
    /\ Cardinality(Matching) >= 2 =>
         integration = [kind |-> "raise", exc |-> "ValueError"]

C1_Witness ==
  /\ integration.kind = "raise"
  /\ \E i, j \in Matching : i < j /\ Records[i] # Records[j]

\* C2: a returned record has the supplied secret and its event name's key is
\* in the payload; a secret configured for push records only, with a payload
\* that has no "commits", ends in not-found.
C2_OnlyMatchingRecord ==
  /\ integration.kind = "found" =>
       /\ SecretMatches(integration.rec)
       /\ RequiredKey(integration.rec) \in DOMAIN payload.o
  /\ ( /\ Resolved
       /\ \A i \in 1..Len(Records) :
            SecretMatches(Records[i]) => EventNameOf(Records[i]) = "push"
       /\ "commits" \notin DOMAIN payload.o )
     => integration.kind = "none"

C2_Witness ==
  /\ integration.kind = "none"
  /\ \E i \in 1..Len(Records) :
       SecretMatches(Records[i]) /\ EventNameOf(Records[i]) = "push"
  /\ \A i \in 1..Len(Records) :
       SecretMatches(Records[i]) => EventNameOf(Records[i]) = "push"
  /\ "pull_request" \in DOMAIN payload.o
  /\ "commits" \notin DOMAIN payload.o

\* C10 as stated: a record whose event name is empty or absent is never
\* the one get_integration returns.
C10_EmptyNameNeverAccepted ==
  integration.kind = "found" => EventNameOf(integration.rec) # ""

\* C10 as amended: a record whose event name is empty or absent is accepted
\* only when the payload has the empty string as a top-level key (and the
\* secret matches); with that key in the payload it is a candidate.
C10_EmptyNameNeedsEmptyKey ==
  /\ (integration.kind = "found" /\ EventNameOf(integration.rec) = "") =>
       "" \in DOMAIN payload.o /\ SecretMatches(integration.rec)
  /\ ( /\ Resolved
       /\ "" \in DOMAIN payload.o
       /\ \E i \in 1..Len(Records) :
            SecretMatches(Records[i]) /\ EventNameOf(Records[i]) = "" )
     => integration.kind # "none"

C10_Witness ==
  /\ integration.kind = "found"
  /\ "event_name" \notin DOMAIN integration.rec
  /\ "" \in DOMAIN payload.o

\* C3 as stated: a request that reached the core and matched no integration
\* is answered 401.
C3_NotFoundIs401 ==
  (pc = "done" /\ integration.kind = "none") => result.status = 401

\* C4 as stated: generate_message never fails and returns a non-empty string.
C4_RenderNeverFails ==
  message # NotYet => (message.kind = "ok" /\ message.text # "")

\* The variables generate_message extracts for an event name.
VariableNames(event_name) ==
  IF event_name = "pull_request"
  THEN {"action", "pr_user", "repository", "pr_title"}
  ELSE IF event_name = "push"
       THEN {"pusher", "repository", "commit_count"}
       ELSE {"payload"}

\* The message format of the record names a variable its event does not have.
NamesMissingVariable(rec) ==
  /\ "message_format" \in DOMAIN rec
  /\ \E i \in 1..Len(rec["message_format"]) :
       /\ "name" \in DOMAIN rec["message_format"][i]
       /\ rec["message_format"][i].name \notin VariableNames(EventNameOf(rec))

\* C5 as stated: with a placeholder name outside the variable set,
\* generate_message raises nothing and returns "Evento recibido: " followed
\* by the payload's JSON text, and process_event goes on to send that
\* message and returns what the delivery gave.
C5_MissingNameFallsBack ==
  ( /\ integration.kind = "found"
    /\ NamesMissingVariable(integration.rec)
    /\ message # NotYet )
  => /\ message = [kind |-> "ok",
                   text |-> "Evento recibido: " \o JsonDumps(payload)]
     /\ pc = "done" =>
          /\ Len(posts) = 1
          /\ posts[1].json = [text |-> message.text]
          /\ response # NotYet
          /\ response.kind = "http" => result.status = response.status_code

\* C6: a request makes at most one POST, none before resolution returned a
\* single record and the message was rendered, none again after a transport
\* failure; the POST goes to the resolved record's destination_url with the
\* body {"text": message}.
C6_AtMostOnePost ==
  /\ Len(posts) <= 1
  /\ pc \in {"start", "idle", "resolve", "render", "post"} => posts = <<>>
  /\ response # NotYet => Len(posts) = 1
  /\ posts # <<>> =>
       /\ integration.kind = "found"
       /\ Cardinality(Matching) = 1
       /\ message.kind = "ok"
       /\ posts[1].url = integration.rec["destination_url"]
       /\ posts[1].json = [text |-> message.text]

C6_Witness ==
  /\ pc = "done"
  /\ response.kind = "raise"
  /\ Len(posts) = 1
  /\ Len(Records) = MaxRecords

\* C7: when the destination answers, whatever its status, process_event
\* returns the response without raising and handle_webhook answers with the
\* destination's status code.
C7_StatusRelayed ==
  (pc = "done" /\ response.kind = "http") =>
    (result.status = response.status_code /\ result.raised = "none")

C7_Witness ==
  /\ pc = "done"
  /\ response.kind = "http"
  /\ response.status_code = 503
  /\ result.status = 503

\* C8 as stated: after a missing, invalid, empty or wrongly shaped
\* configuration file every get_integration call ends in not-found.
C8_MalformedIsNotFound ==
  (file \in Malformed /\ Resolved) => integration.kind = "none"

\* The count C9 gives for a payload.
SequenceLength(pl) ==
  IF "commits" \in DOMAIN pl.o /\ pl.o["commits"].t = "list"
  THEN Len(pl.o["commits"].l)
  ELSE 0

MappingOrAbsent(pl, key) == key \in DOMAIN pl.o => pl.o[key].t = "obj"

\* C9 as stated: for a push record generate_message puts the number of
\* entries of "commits" for commit_count, and 0 when "commits" is absent or
\* no sequence, whatever the shape of "commits".
C9_CommitCount ==
  ( /\ message # NotYet
    /\ EventNameOf(integration.rec) = "push"
    /\ "message_format" \in DOMAIN integration.rec
    /\ integration.rec["message_format"] = CommitCountTemplate
    /\ MappingOrAbsent(payload, "pusher")
    /\ MappingOrAbsent(payload, "repository") )
  => message = [kind |-> "ok", text |-> ToString(SequenceLength(payload))]

====
